---------------------------- MODULE Spec2Model ----------------------------
(***************************************************************************)
(* A model of pdfquicktext.writer.PDFFactory: the page-editing session     *)
(* that opens one page of a PDF, registers fonts in the page's resource    *)
(* table, splices text-placement instructions into the page's instruction  *)
(* sequence and stores the sequence back on close.                         *)
(*                                                                         *)
(* Python values are modelled as follows.                                  *)
(*   - An optional value (None or v) is a sequence of length <= 1:         *)
(*     None is <<>>, v is <<v>>.                                           *)
(*   - A float is an exact rational [n, d] in lowest terms, d > 0.         *)
(*   - A pikepdf object is a record [t, s, n, d]: a name, a string, a      *)
(*     number or null.                                                     *)
(*   - An exception is a record [type, msg]; NoExc is "no exception".      *)
(*   - The PDFFactory instance is a record of its attributes plus the      *)
(*     outcome of the call that produced it (exc, ret).  A method is an    *)
(*     operator from the instance before the call to the instance after.   *)
(*     An assignment made before a raise stays made, as in Python.         *)
(***************************************************************************)
EXTENDS Integers, Sequences, FiniteSets, TLC

VARIABLES pdf_object, page_object, _current_page, _page_instructions, exc, ret, call

vars == <<pdf_object, page_object, _current_page, _page_instructions, exc, ret, call>>

----------------------------------------------------------------------------
(* Bounds of the model. *)

\* An add-text call is taken only while the sequence it leaves and the
\* sequences that earlier closes stored hold at most MaxInstr instructions.
MaxInstr == 11

\* A direct _insert_new_instructions call is taken only while the sequence
\* and the stored sequences hold fewer than MaxDirect instructions.
MaxDirect == 4

\* Under SpecAllFonts a call registers a further font of BaseFont only while
\* the open page holds fewer than MaxFonts of them.
MaxFonts == 1

----------------------------------------------------------------------------
(* Optional values. *)

None == <<>>

Some(v) == <<v>>

IsNone(o) == Len(o) = 0

Val(o) == o[1]

----------------------------------------------------------------------------
(* Floats as exact rationals. *)

Abs(i) == IF i < 0 THEN -i ELSE i

RECURSIVE GCD(_, _)
GCD(a, b) == IF b = 0 THEN a ELSE GCD(b, a % b)

Rat(n, d) ==
    LET g == GCD(Abs(n), Abs(d))
        s == IF d < 0 THEN -1 ELSE 1
    IN  [n |-> (s * n) \div g, d |-> (s * d) \div g]

RatInt(i) == Rat(i, 1)

RatMul(a, b) == Rat(a.n * b.n, a.d * b.d)

RatSub(a, b) == Rat(a.n * b.d - b.n * a.d, a.d * b.d)

RatDiv(a, b) == Rat(a.n * b.d, a.d * b.n)

----------------------------------------------------------------------------
(* pikepdf objects. *)

Name(s) == [t |-> "name", s |-> s, n |-> 0, d |-> 1]

String(s) == [t |-> "str", s |-> s, n |-> 0, d |-> 1]

Null == [t |-> "null", s |-> "", n |-> 0, d |-> 1]

Number(r) == [t |-> "num", s |-> "", n |-> r.n, d |-> r.d]

Operator(s) == [t |-> "op", s |-> s, n |-> 0, d |-> 1]

\* Decimal places of a real number made from a Python float.
RealPlaces == 1000000

\* A Python float handed to pikepdf becomes a PDF real number written with
\* six decimal places (rounded to the nearest).
Real(r) ==
    LET whole == r.n \div r.d
        rest  == r.n % r.d
        frac  == Rat((2 * rest * RealPlaces + r.d) \div (2 * r.d), RealPlaces)
    IN  Number(Rat(whole * frac.d + frac.n, frac.d))

\* ContentStreamInstruction(operands, operator)
CSI(operands, op) == [operands |-> operands, operator |-> Operator(op)]

----------------------------------------------------------------------------
(* Exceptions. *)

NoExc == [type |-> "", msg |-> ""]

PageAlreadyOpen ==
    [type |-> "PDFQuickTextError",
     msg  |-> "A page is already open and must be closed prior to opening a new page."]

NoPageOpen ==
    [type |-> "PDFQuickTextError",
     msg  |-> "A page must be opened prior to this operation."]

KeyError(font) == [type |-> "KeyError", msg |-> font]

IndexError == [type |-> "IndexError", msg |-> "page index out of range"]

AttributeError(attr) == [type |-> "AttributeError", msg |-> attr]

TypeError == [type |-> "TypeError", msg |-> "'NoneType' object is not iterable"]

----------------------------------------------------------------------------
(* Return values: None, a pikepdf object, a tuple of numbers, or a list of  *)
(* instructions.                                                           *)

RetNone == [kind |-> "None", obj |-> Null, tuple |-> <<>>, list |-> <<>>]

RetObj(o) == [kind |-> "object", obj |-> o, tuple |-> <<>>, list |-> <<>>]

RetTuple(t) == [kind |-> "tuple", obj |-> Null, tuple |-> t, list |-> <<>>]

RetList(l) == [kind |-> "list", obj |-> Null, tuple |-> <<>>, list |-> l]

\* A returned value handed to pikepdf as an operand: None becomes null.
AsOperand(r) == IF r.kind = "object" THEN r.obj ELSE Null

----------------------------------------------------------------------------
(* The content stream of a page: the stored form is a flat sequence of     *)
(* tokens, each instruction written as its operands followed by its        *)
(* operator; the decoded form is a sequence of instructions.  The value    *)
(* under a page's /Contents key is a stream object, as in the documents    *)
(* that are opened, or a string object, which is what pikepdf makes of a   *)
(* Python bytes value assigned to a key.                                   *)

\* A stream object holding data.
Stream(data) == [t |-> "stream", data |-> data]

\* The object that pikepdf makes of a bytes value stored under a key of a
\* dictionary: a string holding the bytes.
StringOfBytes(data) == [t |-> "str", data |-> data]

RECURSIVE unparse_content_stream(_)
unparse_content_stream(instructions) ==
    IF instructions = <<>> THEN <<>>
    ELSE Head(instructions).operands \o <<Head(instructions).operator>>
         \o unparse_content_stream(Tail(instructions))

RECURSIVE ParseTokens(_, _)
ParseTokens(tokens, operands) ==
    IF tokens = <<>> THEN <<>>
    ELSE IF Head(tokens).t = "op"
         THEN <<[operands |-> operands, operator |-> Head(tokens)]>>
              \o ParseTokens(Tail(tokens), <<>>)
         ELSE ParseTokens(Tail(tokens), Append(operands, Head(tokens)))

\* pikepdf.parse_content_stream(page): the instructions of the page's
\* content streams.  A /Contents that is neither a stream nor an array of
\* streams is passed over with a warning, and the page has no instructions.
parse_content_stream(page) ==
    IF page.Contents.t = "stream" THEN ParseTokens(page.Contents.data, <<>>)
    ELSE <<>>

----------------------------------------------------------------------------
(* class BaseFont(Enum): enum key -> value. *)

BaseFont ==
    [courier              |-> "/Courier",
     courierbold          |-> "/Courier-Bold",
     courierboldoblique   |-> "/Courier-BoldOblique",
     courieroblique       |-> "/Courier-Oblique",
     helvetica            |-> "/Helvetica",
     helveticabold        |-> "/Helvetica-Bold",
     helveticaboldoblique |-> "/Helvetica-BoldOblique",
     helveticaoblique     |-> "/Helvetica-Oblique",
     timesroman           |-> "/Times-Roman",
     timesbold            |-> "/Times-Bold",
     timesitalic          |-> "/Times-Italic",
     timesbolditalic      |-> "/Times-BoldItalic",
     symbol               |-> "/Symbol",
     zapfdingbats         |-> "/ZapfDingbats"]

\* PDFFactory.DPI
DPI == 72

\* The literal 2.54 of add_text_cm.
CmFactor == Rat(254, 100)

\* The fallback of get_page_dimension: ANSI A (US Letter).
LetterBox == <<0, 0, 612, 792>>

----------------------------------------------------------------------------
(* The PDFFactory instance and the outcome of a call on it. *)

Self ==
    [pdf_object         |-> pdf_object,
     page_object        |-> page_object,
     _current_page      |-> _current_page,
     _page_instructions |-> _page_instructions,
     exc                |-> exc,
     ret                |-> ret]

\* A call starts with no exception raised and nothing returned.
Enter(self) == [self EXCEPT !.exc = NoExc, !.ret = RetNone]

Raise(self, e) == [self EXCEPT !.exc = e, !.ret = RetNone]

Return(self, r) == [self EXCEPT !.ret = r]

Raised(self) == self.exc # NoExc

\* The page self.page_object refers to: page_object holds the page's
\* zero-based position in pdf_object.pages.
PageOf(self) == self.pdf_object.pages[Val(self.page_object) + 1]

\* A write that goes to the first page of the document instead of the page
\* that page_object refers to.  C15 is checked to fail with it.
SetFirstPage(self, page) ==
    [self EXCEPT !.pdf_object.pages[1] = page]

SetPage(self, page) ==
    [self EXCEPT !.pdf_object.pages[Val(self.page_object) + 1] = page]

\* @property current_page
current_page(self) == self._current_page

\* _assert_page_is_open
_assert_page_is_open(self) ==
    IF IsNone(self.page_object) THEN Raise(self, NoPageOpen) ELSE self

----------------------------------------------------------------------------
(* _open_page and _close_page. *)

\* pdf_object.pages[page_ix]: a negative index counts from the end; the
\* result is None when the index is out of range (IndexError).
PagesGetItem(pdf, page_ix) ==
    LET n == Len(pdf.pages)
        u == IF page_ix < 0 THEN page_ix + n ELSE page_ix
    IN  IF u >= 0 /\ u < n THEN Some(u) ELSE None

\* _open_page without its guard: a page can be opened over an open one.
\* C3 is checked to fail with it.
_open_page_unguarded(self0, page_ix) ==
    LET self == Enter(self0)
        s1   == [self EXCEPT !._current_page = Some(page_ix)]
        p    == PagesGetItem(s1.pdf_object, page_ix)
    IN  IF IsNone(p) THEN Raise(s1, IndexError)
        ELSE LET s2 == [s1 EXCEPT !.page_object = p]
             IN  [s2 EXCEPT !._page_instructions =
                               Some(parse_content_stream(PageOf(s2)))]

_open_page(self0, page_ix) ==
    LET self == Enter(self0)
    IN  IF ~IsNone(current_page(self)) THEN Raise(self, PageAlreadyOpen)
        ELSE LET s1 == [self EXCEPT !._current_page = Some(page_ix)]
                 p  == PagesGetItem(s1.pdf_object, page_ix)
             IN  IF IsNone(p) THEN Raise(s1, IndexError)
                 ELSE LET s2 == [s1 EXCEPT !.page_object = p]
                      IN  [s2 EXCEPT !._page_instructions =
                                        Some(parse_content_stream(PageOf(s2)))]

_close_page(self0) ==
    LET self == _assert_page_is_open(Enter(self0))
    IN  IF Raised(self) THEN self
        ELSE IF IsNone(self._page_instructions) THEN Raise(self, TypeError)
        ELSE LET content_stream ==
                     unparse_content_stream(Val(self._page_instructions))
                 s1 == SetPage(self, [PageOf(self) EXCEPT
                                         !.Contents = StringOfBytes(content_stream)])
             IN  [s1 EXCEPT !._current_page = None,
                            !._page_instructions = None,
                            !.page_object = None]

----------------------------------------------------------------------------
(* _add_font: the resource registrar. *)

\* pikepdf.Dictionary(Type=Name.Font, Subtype=Name.Type1, BaseFont=pdf_font)
FontDictionary(pdf_font) ==
    [Type |-> "/Font", Subtype |-> "/Type1", BaseFont |-> pdf_font.s, objid |-> 0]

\* pdf_object.make_indirect(font_dict): the document gains one indirect
\* object, and font_dict becomes a reference to it.
make_indirect(self, font_dict) ==
    [self EXCEPT !.pdf_object.nobjects = @ + 1]

IndirectId(self) == self.pdf_object.nobjects

\* page_object.add_resource(res, Name.Font, name): the /Font table is made
\* when the page has none, and res is stored in it under name.
add_resource(self, res, name) ==
    LET page  == PageOf(self)
        table == IF IsNone(page.Font) THEN <<>> ELSE Val(page.Font)
        new   == [k \in (DOMAIN table) \cup {name} |->
                      IF k = name THEN res ELSE table[k]]
    IN  SetPage(self, [page EXCEPT !.Font = Some(new)])

\* _add_font without the test for an entry that exists: every call makes
\* and registers a new descriptor.  C9 is checked to fail with it.
_add_font_always(self0, font) ==
    LET self == _assert_page_is_open(Enter(self0))
    IN  IF Raised(self) THEN self
        ELSE IF font \notin DOMAIN BaseFont THEN Raise(self, KeyError(font))
        ELSE LET pdf_font == Name(BaseFont[font])
                 page     == PageOf(self)
             IN  IF IsNone(page.Font) THEN Raise(self, AttributeError("/Font"))
                 ELSE LET s1 == make_indirect(self, FontDictionary(pdf_font))
                          font_dict == [FontDictionary(pdf_font) EXCEPT
                                            !.objid = IndirectId(s1)]
                          s2 == add_resource(s1, font_dict, BaseFont[font])
                      IN  Return(s2, RetObj(pdf_font))

\* _add_font without the KeyError: a string that is no key of BaseFont is
\* taken as helvetica.  C11 is checked to fail with it.
_add_font_lenient(self0, font) ==
    LET self == _assert_page_is_open(Enter(self0))
        key  == IF font \in DOMAIN BaseFont THEN font ELSE "helvetica"
    IN  IF Raised(self) THEN self
        ELSE LET pdf_font == Name(BaseFont[key])
                 page     == PageOf(self)
             IN  IF IsNone(page.Font) THEN Raise(self, AttributeError("/Font"))
                 ELSE IF pdf_font.s \in DOMAIN Val(page.Font)
                      THEN Return(self, RetNone)
                 ELSE LET s1 == make_indirect(self, FontDictionary(pdf_font))
                          font_dict == [FontDictionary(pdf_font) EXCEPT
                                            !.objid = IndirectId(s1)]
                          s2 == add_resource(s1, font_dict, BaseFont[key])
                      IN  Return(s2, RetObj(pdf_font))

_add_font(self0, font) ==
    LET self == _assert_page_is_open(Enter(self0))
    IN  IF Raised(self) THEN self
        ELSE IF font \notin DOMAIN BaseFont THEN Raise(self, KeyError(font))
        ELSE LET pdf_font == Name(BaseFont[font])
                 page     == PageOf(self)
             IN  \* self.page_object.resources.Font: no /Font, no attribute
                 IF IsNone(page.Font) THEN Raise(self, AttributeError("/Font"))
                 ELSE IF pdf_font.s \in DOMAIN Val(page.Font)
                      THEN Return(self, RetNone)
                 ELSE LET s1 == make_indirect(self, FontDictionary(pdf_font))
                          font_dict == [FontDictionary(pdf_font) EXCEPT
                                            !.objid = IndirectId(s1)]
                          s2 == add_resource(s1, font_dict, BaseFont[font])
                      IN  Return(s2, RetObj(pdf_font))

----------------------------------------------------------------------------
(* get_page_dimension. *)

\* get_page_dimension without its _assert_page_is_open call: with no page
\* open the test '/MediaBox' in None raises TypeError.  C4 is checked to
\* fail with it.
get_page_dimension_unasserted(self0) ==
    LET self == Enter(self0)
    IN  IF IsNone(self.page_object) THEN Raise(self, TypeError)
        ELSE IF ~IsNone(PageOf(self).MediaBox)
             THEN Return(self, RetTuple(Val(PageOf(self).MediaBox)))
             ELSE Return(self, RetTuple(LetterBox))

\* get_page_dimension without the test for /MediaBox: every page is taken
\* to be US Letter.  C16 is checked to fail with it.
get_page_dimension_letter(self0) ==
    LET self == _assert_page_is_open(Enter(self0))
    IN  IF Raised(self) THEN self
        ELSE Return(self, RetTuple(LetterBox))

get_page_dimension(self0) ==
    LET self == _assert_page_is_open(Enter(self0))
    IN  IF Raised(self) THEN self
        ELSE IF ~IsNone(PageOf(self).MediaBox)
             THEN Return(self, RetTuple(Val(PageOf(self).MediaBox)))
             ELSE Return(self, RetTuple(LetterBox))

----------------------------------------------------------------------------
(* The instruction synthesizer and the splice. *)

_make_text_instructions(self0, text, x, y, size, font) ==
    LET self == _add_font(self0, font)
    IN  IF Raised(self) THEN self
        ELSE LET pdf_font == AsOperand(self.ret)
                 one  == Number(RatInt(1))
                 zero == Number(RatInt(0))
                 instructions ==
                     << CSI(<<>>, "BT"),
                        CSI(<<pdf_font, Real(size)>>, "Tf"),
                        CSI(<<one, zero, zero, one, Real(x), Real(y)>>, "Tm"),
                        CSI(<<String(text)>>, "Tj"),
                        CSI(<<>>, "ET") >>
             IN  Return(self, RetList(instructions))

\* The loop of _insert_new_instructions: the zero-based index of the last
\* instruction whose operator is ET, 0 when there is none.
RECURSIVE InsertIndexLoop(_, _, _)
InsertIndexLoop(instructions, i, insert_index) ==
    IF i >= Len(instructions) THEN insert_index
    ELSE InsertIndexLoop(instructions, i + 1,
                         IF instructions[i + 1].operator.s = "ET"
                         THEN i ELSE insert_index)

InsertIndex(instructions) == InsertIndexLoop(instructions, 0, 0)

\* _insert_new_instructions with the slice old[insert_index + 1:] for the
\* part after the block: the instruction at insert_index is overwritten.
\* C14 is checked to fail with it.
_insert_new_instructions_overwriting(self0, new) ==
    LET self == Enter(self0)
    IN  IF IsNone(self._page_instructions) THEN Raise(self, TypeError)
        ELSE LET old == Val(self._page_instructions)
                 insert_index == InsertIndex(old)
             IN  [self EXCEPT !._page_instructions =
                     Some(SubSeq(old, 1, insert_index) \o new
                          \o SubSeq(old, insert_index + 2, Len(old)))]

_insert_new_instructions(self0, new) ==
    LET self == Enter(self0)
    IN  IF IsNone(self._page_instructions) THEN Raise(self, TypeError)
        ELSE LET old == Val(self._page_instructions)
                 insert_index == InsertIndex(old)
             IN  [self EXCEPT !._page_instructions =
                     Some(SubSeq(old, 1, insert_index) \o new
                          \o SubSeq(old, insert_index + 1, Len(old)))]

_add_text_xy_points(self0, text, x, y, size, font) ==
    LET self == _make_text_instructions(self0, text, x, y, size, font)
    IN  IF Raised(self) THEN self
        ELSE _insert_new_instructions(self, self.ret.list)

add_text(self0, text, inches_from_left, inches_from_top, size, font) ==
    LET self == get_page_dimension(self0)
    IN  IF Raised(self) THEN self
        ELSE LET y_top == RatInt(self.ret.tuple[4])
                 x == RatMul(RatInt(DPI), inches_from_left)
                 y == RatSub(y_top, RatMul(RatInt(DPI), inches_from_top))
             IN  _add_text_xy_points(self, text, x, y, size, font)

add_text_cm(self0, text, cm_from_left, cm_from_top, size, font) ==
    LET inches_from_left == RatMul(CmFactor, cm_from_left)
        inches_from_top  == RatMul(CmFactor, cm_from_top)
    IN  add_text(self0, text, inches_from_left, inches_from_top, size, font)

----------------------------------------------------------------------------
(* The documents a session starts from, and the arguments of the calls. *)

OldText == <<CSI(<<>>, "BT"), CSI(<<String("Old")>>, "Tj"), CSI(<<>>, "ET")>>

\* Decoded content streams of the pages before any edit: empty, graphics
\* only, one text object, and one text object followed by other operators.
InitInstructions ==
    { <<>>,
      <<CSI(<<>>, "q")>>,
      OldText,
      OldText \o <<CSI(<<>>, "S")>> }

InitMediaBoxes == {None, Some(<<0, 0, 595, 842>>)}

\* /Resources without /Font, with an empty /Font, and with a /Font that
\* holds Times-Roman under a name of the producer's own choosing.
InitFonts ==
    { None,
      Some(<<>>),
      Some([k \in {"/F1"} |->
               [Type |-> "/Font", Subtype |-> "/Type1",
                BaseFont |-> "/Times-Roman", objid |-> 1]]) }

InitPages ==
    { [Contents |-> Stream(unparse_content_stream(i)), MediaBox |-> None,
       Font |-> Some(<<>>)] : i \in InitInstructions }
    \cup
    { [Contents |-> Stream(unparse_content_stream(OldText \o <<CSI(<<>>, "S")>>)),
       MediaBox |-> m, Font |-> f] :
          m \in InitMediaBoxes, f \in InitFonts }

\* A two-page document whose pages differ in media box and fonts.
TwoPageDocument ==
    << [Contents |-> Stream(unparse_content_stream(
                         OldText \o <<CSI(<<>>, "S"), CSI(<<>>, "Q")>>)),
        MediaBox |-> Some(<<0, 0, 595, 842>>), Font |-> Some(<<>>)],
       [Contents |-> Stream(unparse_content_stream(
                         <<CSI(<<>>, "q")>> \o OldText \o <<CSI(<<>>, "S")>>)),
        MediaBox |-> None,
        Font |-> Some([k \in {"/F1"} |->
                          [Type |-> "/Font", Subtype |-> "/Type1",
                           BaseFont |-> "/Times-Roman", objid |-> 1]])] >>

InitDocuments == { <<p>> : p \in InitPages } \cup {TwoPageDocument}

Texts == {"Hello"}

Sizes == {RatInt(11)}

InchesInputs == {RatInt(1)}

CmInputs == {Rat(254, 100)}

\* A key of BaseFont (the default font of add_text, whose base font some of
\* the pages already hold under the name /F1) and a key that is none.
FontInputs == {"timesroman", "comicsans"}

PageIndexInputs == (-1) .. Len(pdf_object.pages)

NewInputs == { <<CSI(<<>>, "Q")>> }

NoArgs ==
    [page_ix |-> 0, text |-> "", a |-> RatInt(0), b |-> RatInt(0),
     size |-> RatInt(0), font |-> "", new |-> <<>>]

\* The instructions that earlier _close_page calls stored in pages.
RECURSIVE StoredCount(_)
StoredCount(pages) ==
    IF pages = <<>> THEN 0
    ELSE (IF Head(pages).Contents.t = "str"
          THEN Len(ParseTokens(Head(pages).Contents.data, <<>>)) ELSE 0)
         + StoredCount(Tail(pages))

\* The instructions held in memory and those stored by earlier closes.
InstrCount ==
    (IF IsNone(_page_instructions) THEN 0 ELSE Len(Val(_page_instructions)))
    + StoredCount(pdf_object.pages)

IsOpen == ~IsNone(page_object)

\* The page that is open, and its font table (empty when it has none).
OpenedPage == pdf_object.pages[Val(page_object) + 1]

FontTable(page) == IF IsNone(page.Font) THEN <<>> ELSE Val(page.Font)

----------------------------------------------------------------------------
(* The state machine: one action per call on the session. *)

\* The session that the assignments of __init__ make (lines 33-37): the
\* document decoded from the bytes handed in, and the three page attributes
\* None.  Line 34 reads self.pdf_path, an attribute the class never
\* assigns (see __init__ below); the calls of the other actions are those
\* on an instance whose construction got past that line.
Init ==
    /\ \E pages \in InitDocuments :
           pdf_object = [pages |-> pages, nobjects |-> 1]
    /\ page_object = None
    /\ _current_page = None
    /\ _page_instructions = None
    /\ exc = NoExc
    /\ ret = RetNone
    /\ call = [op |-> "__init__", args |-> NoArgs]

\* The session after a call, and the call that was made.
Do(self, op, args) ==
    /\ pdf_object' = self.pdf_object
    /\ page_object' = self.page_object
    /\ _current_page' = self._current_page
    /\ _page_instructions' = self._page_instructions
    /\ exc' = self.exc
    /\ ret' = self.ret
    /\ call' = [op |-> op, args |-> args]

\* PDFFactory(pdf_bytes).  Line 33 assigns self.pdf_bytes; line 34 reads
\* self.pdf_path, an attribute that neither the class nor the instance
\* has, and raises AttributeError before pdf_object and the three page
\* attributes (lines 34-37) are assigned.
__init__(pdf_bytes) ==
    LET self == [pdf_object         |-> [pages |-> <<>>, nobjects |-> 0],
                 page_object        |-> None,
                 _current_page      |-> None,
                 _page_instructions |-> None,
                 exc                |-> NoExc,
                 ret                |-> RetNone]
    IN  Raise(self, AttributeError("pdf_path"))

\* factory = PDFFactory(pdf_bytes): when the constructor raises, no
\* instance is made and the session in use stays as it is.
Construct ==
    \E pdf_bytes \in InitDocuments :
        LET new == __init__(pdf_bytes)
        IN  IF Raised(new)
            THEN Do(Raise(Enter(Self), new.exc), "__init__", NoArgs)
            ELSE Do(new, "__init__", NoArgs)

OpenPage ==
    \E page_ix \in PageIndexInputs :
        Do(_open_page(Self, page_ix), "_open_page",
           [NoArgs EXCEPT !.page_ix = page_ix])

ClosePage == Do(_close_page(Self), "_close_page", NoArgs)

AddFont ==
    \E font \in FontInputs :
        Do(_add_font(Self, font), "_add_font", [NoArgs EXCEPT !.font = font])

GetPageDimension == Do(get_page_dimension(Self), "get_page_dimension", NoArgs)

InsertNewInstructions ==
    /\ InstrCount < MaxDirect
    /\ \E new \in NewInputs :
           Do(_insert_new_instructions(Self, new), "_insert_new_instructions",
              [NoArgs EXCEPT !.new = new])

AddText ==
    /\ InstrCount + 5 <= MaxInstr
    /\ \E text \in Texts, a \in InchesInputs, b \in InchesInputs,
          size \in Sizes, font \in FontInputs :
           Do(add_text(Self, text, a, b, size, font), "add_text",
              [NoArgs EXCEPT !.text = text, !.a = a, !.b = b,
                             !.size = size, !.font = font])

AddTextCm ==
    /\ InstrCount + 5 <= MaxInstr
    /\ \E text \in Texts, a \in CmInputs, b \in CmInputs,
          size \in Sizes, font \in FontInputs :
           Do(add_text_cm(Self, text, a, b, size, font), "add_text_cm",
              [NoArgs EXCEPT !.text = text, !.a = a, !.b = b,
                             !.size = size, !.font = font])

Next ==
    \/ Construct
    \/ OpenPage
    \/ ClosePage
    \/ AddFont
    \/ GetPageDimension
    \/ InsertNewInstructions
    \/ AddText
    \/ AddTextCm

Spec == Init /\ [][Next]_vars

----------------------------------------------------------------------------
(* The same session called with every key of BaseFont.  The documents are  *)
(* one blank page with an empty font table and one that holds Times-Roman  *)
(* under /F1; a call registers a further font only while the open page     *)
(* holds fewer than MaxFonts of the fonts of BaseFont, and an add-text     *)
(* call is taken only on a sequence without instructions.                  *)

AllFontInputs == (DOMAIN BaseFont) \cup {"comicsans"}

StandardNames == {BaseFont[k] : k \in DOMAIN BaseFont}

FontRoom(font) ==
    IF ~IsOpen \/ font \notin DOMAIN BaseFont THEN TRUE
    ELSE IF BaseFont[font] \in DOMAIN FontTable(OpenedPage) THEN TRUE
    ELSE Cardinality((DOMAIN FontTable(OpenedPage)) \cap StandardNames) < MaxFonts

InitAllFonts ==
    /\ \E f \in InitFonts \ {None} :
           pdf_object =
               [pages |-> <<[Contents |-> Stream(<<>>), MediaBox |-> None,
                              Font |-> f]>>,
                nobjects |-> 1]
    /\ page_object = None
    /\ _current_page = None
    /\ _page_instructions = None
    /\ exc = NoExc
    /\ ret = RetNone
    /\ call = [op |-> "__init__", args |-> NoArgs]

AddFontAll ==
    \E font \in AllFontInputs :
        /\ FontRoom(font)
        /\ Do(_add_font(Self, font), "_add_font", [NoArgs EXCEPT !.font = font])

AddTextAll ==
    /\ InstrCount = 0
    /\ \E text \in Texts, a \in InchesInputs, b \in InchesInputs,
          size \in Sizes, font \in AllFontInputs :
           /\ FontRoom(font)
           /\ Do(add_text(Self, text, a, b, size, font), "add_text",
                 [NoArgs EXCEPT !.text = text, !.a = a, !.b = b,
                                !.size = size, !.font = font])

NextAllFonts ==
    \/ OpenPage
    \/ ClosePage
    \/ AddFontAll
    \/ AddTextAll

SpecAllFonts == InitAllFonts /\ [][NextAllFonts]_vars

----------------------------------------------------------------------------
(* Vocabulary of the properties.  A step of Next is a call: call' names    *)
(* the method and its arguments, exc' and ret' its outcome; the unprimed   *)
(* variables are the session before the call.                              *)

IsClosed ==
    IsNone(_current_page) /\ IsNone(page_object) /\ IsNone(_page_instructions)

\* The session and the document, without the outcome of the last call.
session == <<page_object, _current_page, _page_instructions>>

AddTextOps == {"add_text", "add_text_cm"}

\* The number of instructions up to and including the last ET; 0 without ET.
LastET(seq) ==
    IF \E i \in 1..Len(seq) : seq[i].operator.s = "ET"
    THEN CHOOSE i \in 1..Len(seq) :
             /\ seq[i].operator.s = "ET"
             /\ \A j \in (i + 1)..Len(seq) : seq[j].operator.s # "ET"
    ELSE 0

\* seq with block spliced in after its first k instructions.
SplicedAt(seq, k, block) == SubSeq(seq, 1, k) \o block \o SubSeq(seq, k + 1, Len(seq))

\* At position p of seq starts a contiguous group BT Tf Tm Tj ET showing text.
IsTextGroup(seq, p, text) ==
    /\ p >= 1
    /\ p + 4 <= Len(seq)
    /\ <<seq[p].operator.s, seq[p + 1].operator.s, seq[p + 2].operator.s,
         seq[p + 3].operator.s, seq[p + 4].operator.s>>
           = <<"BT", "Tf", "Tm", "Tj", "ET">>
    /\ seq[p + 3].operands = <<String(text)>>

\* The block that addText(text, left, top, size, font) is specified to add
\* on a page whose media box has the top y_top.
SpecifiedBlock(text, left, top, size, font, y_top) ==
    << CSI(<<>>, "BT"),
       CSI(<<Name(BaseFont[font]), Number(size)>>, "Tf"),
       CSI(<<Number(RatInt(1)), Number(RatInt(0)), Number(RatInt(0)),
             Number(RatInt(1)),
             Number(RatMul(RatInt(72), left)),
             Number(RatSub(RatInt(y_top), RatMul(RatInt(72), top)))>>, "Tm"),
       CSI(<<String(text)>>, "Tj"),
       CSI(<<>>, "ET") >>

ContainsBlock(seq, block) ==
    \E p \in 1..Len(seq) :
        p + Len(block) - 1 <= Len(seq) /\ SubSeq(seq, p, p + Len(block) - 1) = block

YTop(page) == IF IsNone(page.MediaBox) THEN 792 ELSE Val(page.MediaBox)[4]

----------------------------------------------------------------------------
(* C1. insert(newInstructions) on an open page places the whole new block  *)
(* immediately after the last ET of the current sequence, and at index 0   *)
(* when the sequence has no ET.                                            *)
C1_InsertAfterLastET ==
    [][ (call'.op = "_insert_new_instructions" /\ IsOpen)
          => /\ exc' = NoExc
             /\ _page_instructions' =
                  Some(SplicedAt(Val(_page_instructions),
                                 LastET(Val(_page_instructions)),
                                 call'.args.new)) ]_vars

(* C2. After two successive add-text calls on the same open page both      *)
(* blocks are in the sequence, each a contiguous BT Tf Tm Tj ET group, and *)
(* the second block's BT comes after the first block's ET.                 *)
C2_TwoBlocksInOrder ==
    [][ (/\ call.op \in AddTextOps /\ exc = NoExc
         /\ call'.op \in AddTextOps /\ exc' = NoExc)
          => LET seq == Val(_page_instructions')
             IN  \E p1, p2 \in 1..Len(seq) :
                     /\ IsTextGroup(seq, p1, call.args.text)
                     /\ IsTextGroup(seq, p2, call'.args.text)
                     /\ p1 + 5 <= p2 ]_vars

(* C3. openPage while a page is open fails with PageAlreadyOpen and leaves *)
(* the document and the session as they were (the same page open with the *)
(* same instruction sequence); openPage succeeds only from Closed.         *)
C3_OpenWhileOpenFails ==
    [][ call'.op = "_open_page"
          => /\ IsOpen => /\ exc' = PageAlreadyOpen
                          /\ UNCHANGED <<pdf_object, session>>
             /\ exc' = NoExc => IsClosed ]_vars

\* A second page was asked for while a page was open, and the call failed.
C3_Witness ==
    /\ call.op = "_open_page"
    /\ exc = PageAlreadyOpen
    /\ IsOpen
    /\ ~IsNone(_page_instructions)
    /\ Some(call.args.page_ix) # page_object

(* C4. With no page open, addText, addTextCm, getPageDimensions,           *)
(* ensureFont and closePage all fail with the one NoPageOpen error, which  *)
(* is not the PageAlreadyOpen error, and leave session and document as     *)
(* they were.                                                              *)
C4_NoPageOpenUniform ==
    [][ (/\ ~IsOpen
         /\ call'.op \in {"add_text", "add_text_cm", "get_page_dimension",
                          "_add_font", "_close_page"})
          => /\ exc' = NoPageOpen
             /\ exc' # PageAlreadyOpen
             /\ UNCHANGED <<pdf_object, session>> ]_vars

\* addTextCm was called on a closed session and failed with NoPageOpen.
C4_Witness ==
    /\ call.op = "add_text_cm"
    /\ exc = NoPageOpen
    /\ IsClosed

(* C5. Every call that fails leaves the session state (current page index, *)
(* page object, instruction sequence) and the document exactly as they     *)
(* were before the call.                                                   *)
C5_NoPartialFailure ==
    [][ exc' # NoExc => UNCHANGED <<pdf_object, session>> ]_vars

(* C6. addTextCm(text, a, b) and addText(text, a/2.54, b/2.54), with the   *)
(* same size and font on the same open page in the same state, produce     *)
(* identical instruction sequences.                                        *)
C6_CmEqualsInches ==
    [][ (call'.op = "add_text_cm" /\ IsOpen)
          => _page_instructions' =
               add_text(Self, call'.args.text,
                        RatDiv(call'.args.a, Rat(254, 100)),
                        RatDiv(call'.args.b, Rat(254, 100)),
                        call'.args.size, call'.args.font)._page_instructions ]_vars

(* C7. addText(text, left, top, size, font) on an open page adds exactly   *)
(* the five instructions BT, Tf [fontName, size], Tm [1,0,0,1, 72*left,    *)
(* y_top - 72*top], Tj [text], ET as one contiguous group, and the group   *)
(* is in the sequence that a closePage right after it stores.              *)
C7_AddTextBlock ==
    [][ /\ (call'.op = "add_text" /\ IsOpen /\ exc' = NoExc)
            => /\ Len(Val(_page_instructions')) = Len(Val(_page_instructions)) + 5
               /\ ContainsBlock(Val(_page_instructions'),
                      SpecifiedBlock(call'.args.text, call'.args.a, call'.args.b,
                                     call'.args.size, call'.args.font,
                                     YTop(OpenedPage)))
        /\ (/\ call.op = "add_text" /\ exc = NoExc
            /\ call'.op = "_close_page" /\ exc' = NoExc)
            => ContainsBlock(
                   parse_content_stream(pdf_object'.pages[Val(page_object) + 1]),
                   SpecifiedBlock(call.args.text, call.args.a, call.args.b,
                                  call.args.size, call.args.font,
                                  YTop(OpenedPage))) ]_vars

(* C8. ensureFont returns the font's resource name on every successful     *)
(* call, also when the font is already registered on the open page; so the *)
(* first operand of Tf in every block addText produces is the resource     *)
(* name of the requested font.                                             *)
C8_EnsureFontReturnsName ==
    [][ /\ (call'.op = "_add_font" /\ exc' = NoExc)
            => ret' = RetObj(Name(BaseFont[call'.args.font]))
        /\ (call'.op \in AddTextOps /\ exc' = NoExc)
            => \E k \in 0..Len(Val(_page_instructions)) :
                   LET block == SubSeq(Val(_page_instructions'), k + 1, k + 5)
                   IN  /\ _page_instructions' =
                            Some(SplicedAt(Val(_page_instructions), k, block))
                       /\ block[2].operator.s = "Tf"
                       /\ block[2].operands[1] = Name(BaseFont[call'.args.font])
      ]_vars

C10_EnsureFontAddsEntry ==
    [][ (/\ call'.op = "_add_font"
         /\ IsOpen
         /\ call'.args.font \in DOMAIN BaseFont
         /\ BaseFont[call'.args.font] \notin DOMAIN FontTable(OpenedPage))
          => LET name   == BaseFont[call'.args.font]
                 before == FontTable(OpenedPage)
                 after  == FontTable(pdf_object'.pages[Val(page_object) + 1])
             IN  /\ exc' = NoExc
                 /\ DOMAIN after = (DOMAIN before) \cup {name}
                 /\ \A k \in DOMAIN before : after[k] = before[k]
                 /\ <<after[name].Type, after[name].Subtype, after[name].BaseFont>>
                      = <<"/Font", "/Type1", name>>
                 /\ ret' = RetObj(Name(name)) ]_vars

(* C11. addText, addTextCm or ensureFont on an open page with a font key   *)
(* that is no key of BaseFont fails with the unknown-font error (a         *)
(* KeyError naming the key, of another type than the NoPageOpen and        *)
(* PageAlreadyOpen errors) and leaves the font table, the instruction      *)
(* sequence and the rest of document and session unchanged, the page       *)
(* still open.                                                             *)
C11_UnknownFontFails ==
    [][ (/\ call'.op \in {"_add_font", "add_text", "add_text_cm"}
         /\ IsOpen
         /\ call'.args.font \notin DOMAIN BaseFont)
          => /\ exc' = KeyError(call'.args.font)
             /\ exc'.type \notin {NoPageOpen.type, PageAlreadyOpen.type}
             /\ UNCHANGED <<pdf_object, session>>
             /\ IsOpen' ]_vars

\* addText named a font that does not exist while a page was open.
C11_Witness ==
    /\ call.op = "add_text"
    /\ call.args.font = "comicsans"
    /\ exc = KeyError("comicsans")
    /\ IsOpen
    /\ ~IsNone(_page_instructions)

(* C12. closePage from Open stores the full in-memory instruction sequence *)
(* as the open page's content and returns the session to Closed (no        *)
(* current page, no page object, no sequence); an openPage of the same     *)
(* page right after it loads exactly the sequence that was held at close.  *)
C12_CloseThenReopen ==
    [][ (call'.op = "_close_page" /\ IsOpen)
          => /\ exc' = NoExc
             /\ IsClosed'
             /\ pdf_object'.pages[Val(page_object) + 1].Contents.data
                  = unparse_content_stream(Val(_page_instructions))
             /\ LET reopened == _open_page(Self', Val(_current_page))
                IN  /\ reopened.exc = NoExc
                    /\ reopened.page_object = page_object
                    /\ reopened._page_instructions = _page_instructions ]_vars

(* C13. In every reachable state the session is either Closed (current     *)
(* page index, page object and instruction sequence all unset) or Open on  *)
(* one page (all three set, the index and the page object naming the same  *)
(* page); no state with only some of the three set is reachable, whatever  *)
(* calls succeeded or failed before.                                       *)
C13_ClosedOrOpenOnOnePage ==
    \/ IsClosed
    \/ /\ ~IsNone(_current_page)
       /\ ~IsNone(page_object)
       /\ ~IsNone(_page_instructions)
       /\ PagesGetItem(pdf_object, Val(_current_page)) = page_object

\* a is b with some of its elements left out.
RECURSIVE IsSubsequence(_, _)
IsSubsequence(a, b) ==
    IF a = <<>> THEN TRUE
    ELSE IF b = <<>> THEN FALSE
    ELSE IF Head(a) = Head(b) THEN IsSubsequence(Tail(a), Tail(b))
    ELSE IsSubsequence(a, Tail(b))

(* C14. Each successful add-text call on an open page lengthens the        *)
(* sequence by exactly 5: the sequence after it is the sequence before it  *)
(* with five instructions put in at one place, so that no instruction that *)
(* was there is dropped, duplicated, altered or reordered; and in every    *)
(* state with a page open the instructions loaded when the page was opened *)
(* (the decoded content of the page) are all in the sequence, in their     *)
(* original order.                                                         *)
C14_ExistingInstructionsKept ==
    [][ /\ (call'.op \in AddTextOps /\ exc' = NoExc)
            => /\ Len(Val(_page_instructions')) = Len(Val(_page_instructions)) + 5
               /\ \E k \in 0..Len(Val(_page_instructions)) :
                      _page_instructions' =
                          Some(SplicedAt(Val(_page_instructions), k,
                                         SubSeq(Val(_page_instructions'), k + 1, k + 5)))
        /\ (IsOpen' /\ ~IsNone(_page_instructions'))
            => IsSubsequence(parse_content_stream(OpenedPage'),
                             Val(_page_instructions')) ]_vars

\* Two add-text calls were made on a page opened with an instruction in it.
C14_Witness ==
    /\ call.op \in AddTextOps
    /\ exc = NoExc
    /\ IsOpen
    /\ Len(parse_content_stream(OpenedPage)) > 0
    /\ Len(Val(_page_instructions)) = Len(parse_content_stream(OpenedPage)) + 10

(* C15. In a document with several pages every call of an open / add-text  *)
(* / close session on page i leaves every other page as it was, content    *)
(* and font table included, and changes nothing of page i but its content  *)
(* and its font table; the number of pages stays the same.                 *)
C15_OtherPagesUnchanged ==
    [][ /\ Len(pdf_object'.pages) = Len(pdf_object.pages)
        /\ \A i \in 1..Len(pdf_object.pages) :
               /\ pdf_object'.pages[i].MediaBox = pdf_object.pages[i].MediaBox
               /\ (IF IsOpen THEN i # Val(page_object) + 1 ELSE TRUE)
                    => pdf_object'.pages[i] = pdf_object.pages[i] ]_vars

\* The second page of the two-page document was opened, given a text with
\* a font it did not hold and closed; the first page is as it was loaded.
C15_Witness ==
    /\ Len(pdf_object.pages) = 2
    /\ call.op = "_close_page"
    /\ exc = NoExc
    /\ pdf_object.pages[2].Contents.t = "str"
    /\ Len(ParseTokens(pdf_object.pages[2].Contents.data, <<>>)) = 10
    /\ "/Times-Roman" \in DOMAIN FontTable(pdf_object.pages[2])
    /\ pdf_object.pages[1] = TwoPageDocument[1]

(* C16. getPageDimensions on an open page returns the four values of the   *)
(* page's media box (x_left, y_bottom, x_right, y_top) when the page       *)
(* declares one and (0, 0, 612, 792) otherwise, and changes neither the    *)
(* document nor the session.                                               *)
C16_PageDimension ==
    [][ (call'.op = "get_page_dimension" /\ IsOpen)
          => /\ exc' = NoExc
             /\ ret' = RetTuple(IF IsNone(OpenedPage.MediaBox)
                                THEN <<0, 0, 612, 792>>
                                ELSE Val(OpenedPage.MediaBox))
             /\ UNCHANGED <<pdf_object, session>> ]_vars

\* The dimensions of an open A4 page were asked for and returned.
C16_Witness ==
    /\ call.op = "get_page_dimension"
    /\ exc = NoExc
    /\ IsOpen
    /\ ~IsNone(OpenedPage.MediaBox)
    /\ ret = RetTuple(<<0, 0, 595, 842>>)

\* The BT and ET of seq are paired and not nested: every BT is closed by an
\* ET before the next BT, and every ET closes a BT.  inText tells whether
\* a BT is waiting for its ET.
RECURSIVE PairedFrom(_, _)
PairedFrom(seq, inText) ==
    IF seq = <<>> THEN ~inText
    ELSE IF Head(seq).operator.s = "BT"
         THEN ~inText /\ PairedFrom(Tail(seq), TRUE)
    ELSE IF Head(seq).operator.s = "ET"
         THEN inText /\ PairedFrom(Tail(seq), FALSE)
    ELSE PairedFrom(Tail(seq), inText)

ProperlyPaired(seq) == PairedFrom(seq, FALSE)

(* C17. When the sequence that openPage loaded has properly paired,        *)
(* non-nested BT/ET, the sequence held after any add-text calls has too:   *)
(* no inserted BT lies between an earlier BT and its ET.                   *)
C17_TextObjectsNotNested ==
    (/\ IsOpen
     /\ ~IsNone(_page_instructions)
     /\ ProperlyPaired(parse_content_stream(OpenedPage)))
      => ProperlyPaired(Val(_page_instructions))

(* C18. Constructing a session from the bytes of a PDF completes without   *)
(* error and yields the Closed state (no current page, no page object, no  *)
(* instruction sequence), from which openPage succeeds on every valid      *)
(* index.                                                                  *)
C18_ConstructionYieldsClosed ==
    [][ call'.op = "__init__"
          => /\ exc' = NoExc
             /\ IsClosed'
             /\ \A ix \in 0..(Len(pdf_object'.pages) - 1) :
                    _open_page(Self', ix).exc = NoExc ]_vars

(* C19. The session never gets stuck: in every reachable state, also after *)
(* calls that failed (such as openPage with an index out of range), an     *)
(* openPage with some valid index succeeds or closePage succeeds, so that  *)
(* the session can be brought back to a state where a page can be opened.  *)
C19_NeverStuck ==
    \/ \E ix \in 0..(Len(pdf_object.pages) - 1) : _open_page(Self, ix).exc = NoExc
    \/ _close_page(Self).exc = NoExc

============================================================================
